---- MODULE Spec2Model ----
(***************************************************************************)
(* Coffee_Dataset_Analysis: the two data-cleaning helpers of               *)
(* data_cleaning_functions.py (combine_columns,                            *)
(* remove_high_missing_columns) and the dashboard callbacks of dash2.py.   *)
(*                                                                         *)
(* A string is a sequence of one-character strings, so that strip, split,  *)
(* replace and join are computed character by character.  A cell value is  *)
(* a record with a kind k in {"bool","str","num","nan"} and one payload    *)
(* field per kind.  A table (pandas DataFrame) is a record                 *)
(*   [cols : sequence of column names, n : number of rows,                 *)
(*    data : column name -> sequence of n cell values].                    *)
(***************************************************************************)
EXTENDS Integers, Sequences, FiniteSets, TLC

VARIABLES df, df0, ret, call, calls, stdout, favorite_coffee_counts, employment_counts

vars == <<df, df0, ret, call, calls, stdout, favorite_coffee_counts, employment_counts>>

(***************************************************************************)
(* Bounds of the model.                                                    *)
(***************************************************************************)
MaxRows == 3

MaxDfRows == 3

MaxCombineRows == 1

MaxCalls == 2

(***************************************************************************)
(* Cell values.                                                            *)
(***************************************************************************)
B(x) == [k |-> "bool", b |-> x, s |-> <<>>, n |-> 0]

S(x) == [k |-> "str", b |-> FALSE, s |-> x, n |-> 0]

N(x) == [k |-> "num", b |-> FALSE, s |-> <<>>, n |-> x]

NaN == [k |-> "nan", b |-> FALSE, s |-> <<>>, n |-> 0]

Range(f) == {f[i] : i \in DOMAIN f}

(***************************************************************************)
(* Python string operations, on sequences of characters.                   *)
(***************************************************************************)
IsSpace(c) == c = " "

RECURSIVE lstrip(_)
lstrip(s) == IF s # <<>> /\ IsSpace(Head(s)) THEN lstrip(Tail(s)) ELSE s

RECURSIVE rstrip(_)
rstrip(s) ==
    IF s # <<>> /\ IsSpace(s[Len(s)]) THEN rstrip(SubSeq(s, 1, Len(s) - 1)) ELSE s

strip(s) == rstrip(lstrip(s))

\* s.split(c)[-1]: what follows the last occurrence of c, all of s when there is none
SplitLast(s, c) ==
    LET at == {i \in 1..Len(s) : s[i] = c}
    IN  IF at = {} THEN s
        ELSE LET last == CHOOSE i \in at : \A j \in at : j <= i
             IN  SubSeq(s, last + 1, Len(s))

\* s.replace(c, '')
ReplaceNone(s, c) == SelectSeq(s, LAMBDA x : x # c)

\* sep.join(parts)
RECURSIVE Join(_, _)
Join(parts, sep) ==
    IF parts = <<>> THEN <<>>
    ELSE IF Len(parts) = 1 THEN parts[1]
    ELSE parts[1] \o sep \o Join(Tail(parts), sep)

Digit(d) == <<"0", "1", "2", "3", "4", "5", "6", "7", "8", "9">>[d + 1]

\* str(value)
PyStr(v) ==
    CASE v.k = "str" -> v.s
      [] v.k = "bool" -> IF v.b THEN <<"T", "r", "u", "e">> ELSE <<"F", "a", "l", "s", "e">>
      [] v.k = "num" -> IF v.n < 10 THEN <<Digit(v.n)>> ELSE <<Digit(v.n \div 10), Digit(v.n % 10)>>
      [] OTHER -> <<"n", "a", "n">>

\* value == True: Python compares the number 1 equal to True
PyEqTrue(v) == (v.k = "bool" /\ v.b) \/ (v.k = "num" /\ v.n = 1)

(***************************************************************************)
(* Tables.                                                                 *)
(***************************************************************************)
Columns(T) == Range(T.cols)

\* df[name] = values : overwrite in place, or append a new last column
SetColumn(T, name, values) ==
    [cols |-> IF name \in Columns(T) THEN T.cols ELSE Append(T.cols, name),
     n    |-> T.n,
     data |-> [c \in Columns(T) \cup {name} |-> IF c = name THEN values ELSE T.data[c]]]

\* a drop that stops after the first of the named columns
DropFirstColumn(T, names) ==
    LET hit == SelectSeq(T.cols, LAMBDA c : c \in names)
        gone == IF hit = <<>> THEN {} ELSE {hit[1]}
    IN  [cols |-> SelectSeq(T.cols, LAMBDA c : c \notin gone),
         n    |-> T.n,
         data |-> [c \in Columns(T) \ gone |-> T.data[c]]]

\* df.drop(columns=names, errors='ignore')
DropColumns(T, names) ==
    [cols |-> SelectSeq(T.cols, LAMBDA c : c \notin names),
     n    |-> T.n,
     data |-> [c \in Columns(T) \ names |-> T.data[c]]]

NoTable == [cols |-> <<>>, n |-> 0, data |-> <<>>]

NoSummary == <<>>

\* what a call gave back: a table, a figure's data frame (summary), a page, or an exception
Returned(T) == [ok |-> TRUE, err |-> "", tbl |-> T, summary |-> NoSummary, page |-> ""]

Raised(e) == [ok |-> FALSE, err |-> e, tbl |-> NoTable, summary |-> NoSummary, page |-> ""]

NoReturn == [ok |-> FALSE, err |-> "not called", tbl |-> NoTable, summary |-> NoSummary, page |-> ""]

(***************************************************************************)
(* combine_columns                                                         *)
(***************************************************************************)
\* the labels of one row; row[j] is the row's value in column columns_to_combine[j]
get_positive_responses(columns_to_combine, row) ==
    LET picked == SelectSeq([j \in 1..Len(columns_to_combine) |-> j],
                            LAMBDA j : \/ PyEqTrue(row[j])
                                       \/ (row[j].k = "str" /\ strip(row[j].s) # <<>>))
    IN  [p \in 1..Len(picked) |->
            LET col == columns_to_combine[picked[p]]
                value == row[picked[p]]
            IN  IF PyEqTrue(value)
                THEN strip(ReplaceNone(SplitLast(col, "("), ")"))
                ELSE strip(PyStr(value))]

\* df[columns_to_combine].apply(lambda row: separator.join(...), axis=1)
CombinedColumn(T, columns_to_combine, separator) ==
    [i \in 1..T.n |->
        S(Join(get_positive_responses(columns_to_combine,
                   [j \in 1..Len(columns_to_combine) |-> T.data[columns_to_combine[j]][i]]),
               separator))]

\* the caller's table after the call: line 39 assigns into the frame passed in
combine_columns_df(T, columns_to_combine, new_column_name, separator) ==
    IF Range(columns_to_combine) \subseteq Columns(T)
    THEN SetColumn(T, new_column_name, CombinedColumn(T, columns_to_combine, separator))
    ELSE T

\* the value returned; df[columns_to_combine] raises KeyError on a missing label
combine_columns_return(T, columns_to_combine, new_column_name, separator) ==
    IF Range(columns_to_combine) \subseteq Columns(T)
    THEN Returned(DropColumns(combine_columns_df(T, columns_to_combine, new_column_name, separator),
                              Range(columns_to_combine)))
    ELSE Raised("KeyError")

\* column names of the modelled survey table
ColLatte == <<"P", " ", "(", "L", ")">>

ColCortado == <<"P", "(", "C", ")">>

ColOther == <<"O">>

ColDrinks == <<"D">>

ColGone == <<"G">>

FlagCells ==
    {B(TRUE), B(FALSE), NaN, S(<<>>), S(<<" ">>), S(<<" ", "x", " ">>), N(0), N(1)}

TextCells == {NaN, S(<<>>), S(<<"m">>)}

CombineTables ==
    {[cols |-> <<ColLatte, ColCortado, ColOther>>,
      n    |-> Len(a),
      data |-> (ColLatte :> a) @@ (ColCortado :> b) @@ (ColOther :> c)] :
        <<a, b, c>> \in UNION {[1..m -> FlagCells] \X [1..m -> FlagCells] \X [1..m -> TextCells] :
                                 m \in 0..MaxCombineRows}}

Groups ==
    {<<ColLatte, ColCortado>>, <<ColCortado, ColLatte>>, <<ColLatte, ColCortado, ColOther>>,
     <<ColCortado>>, <<ColLatte, ColGone>>}

Names == {ColDrinks, ColOther, ColLatte}

Separators == {<<";", " ">>, <<"/">>}

Ratio(a, b) == [nan |-> FALSE, num |-> a, den |-> b]

NoCall ==
    [fn |-> "", G |-> <<>>, name |-> <<>>, sep |-> <<>>, t |-> Ratio(0, 1), prev_t |-> Ratio(0, 1),
     sel |-> NaN, sels |-> [none |-> TRUE, items |-> <<>>], pathname |-> ""]

InitCombine ==
    /\ df \in CombineTables
    /\ df0 = df
    /\ ret = NoReturn
    /\ call = NoCall
    /\ calls = 0
    /\ stdout = <<>>
    /\ favorite_coffee_counts = NoSummary
    /\ employment_counts = NoSummary

\* one call df = combine_columns(df, G, name, sep); a later call is made on the
\* table the previous call returned
combine_columns(G, name, sep) ==
    /\ calls < MaxCalls
    /\ calls = 0 \/ ret.ok
    /\ LET T == IF calls = 0 THEN df ELSE ret.tbl
       IN  /\ df0' = T
           /\ df' = combine_columns_df(T, G, name, sep)
           /\ ret' = combine_columns_return(T, G, name, sep)
    /\ call' = [NoCall EXCEPT !.fn = "combine_columns", !.G = G, !.name = name, !.sep = sep]
    /\ calls' = calls + 1
    /\ UNCHANGED <<stdout, favorite_coffee_counts, employment_counts>>

NextCombine == \E G \in Groups, name \in Names, sep \in Separators : combine_columns(G, name, sep)

SpecCombine == InitCombine /\ [][NextCombine]_vars

(***************************************************************************)
(* remove_high_missing_columns                                             *)
(***************************************************************************)
\* df.isnull(), one cell
isnull(v) == v.k = "nan"

\* the mean of a column of n booleans, as the fraction count/n; the mean of no
\* values is NaN.  (The code divides two floats; count/n and a threshold written
\* as the same fraction round to the same float, so fractions compare alike.)
RatioNaN == [nan |-> TRUE, num |-> 0, den |-> 1]

\* a mean that takes a column of no rows to be missing throughout
mean_empty_all_missing(flags) ==
    IF Len(flags) = 0 THEN Ratio(1, 1)
    ELSE Ratio(Cardinality({i \in 1..Len(flags) : flags[i]}), Len(flags))

mean(flags) ==
    IF Len(flags) = 0 THEN RatioNaN
    ELSE Ratio(Cardinality({i \in 1..Len(flags) : flags[i]}), Len(flags))

\* df.isnull().mean()
missing_proportion(T) ==
    [c \in Columns(T) |-> mean([i \in 1..T.n |-> isnull(T.data[c][i])])]

\* r >= threshold
ExceedsOrEquals(r, threshold) == ~r.nan /\ r.num * threshold.den >= threshold.num * r.den

\* r > threshold; every comparison with NaN is false
Exceeds(r, threshold) == ~r.nan /\ r.num * threshold.den > threshold.num * r.den

\* missing_proportion[missing_proportion > threshold].index
columns_to_drop(T, threshold) ==
    SelectSeq(T.cols, LAMBDA c : Exceeds(missing_proportion(T)[c], threshold))

remove_high_missing_columns_return(T, threshold) ==
    Returned(DropColumns(T, Range(columns_to_drop(T, threshold))))

ColNotes == <<"N">>

ColAge == <<"A">>

ColCups == <<"K">>

MissingTables ==
    {[cols |-> <<ColNotes, ColAge, ColCups>>,
      n    |-> Len(a),
      data |-> (ColNotes :> a) @@ (ColAge :> b) @@ (ColCups :> c)] :
        <<a, b, c>> \in UNION {[1..m -> {NaN, S(<<>>)}] \X [1..m -> {NaN, S(<<"x">>)}]
                                 \X [1..m -> {NaN, N(0)}] : m \in 0..MaxRows}}

Thresholds == {Ratio(0, 1), Ratio(1, 3), Ratio(1, 2), Ratio(9, 10), Ratio(1, 1)}

InitMissing ==
    /\ df \in MissingTables
    /\ df0 = df
    /\ ret = NoReturn
    /\ call = NoCall
    /\ calls = 0
    /\ stdout = <<>>
    /\ favorite_coffee_counts = NoSummary
    /\ employment_counts = NoSummary

\* one call df = remove_high_missing_columns(df, threshold); a later call is made
\* on the table the previous call returned
remove_high_missing_columns(threshold) ==
    /\ calls < MaxCalls
    /\ LET T == IF calls = 0 THEN df ELSE ret.tbl
       IN  /\ df0' = T
           /\ df' = T
           /\ ret' = remove_high_missing_columns_return(T, threshold)
           /\ stdout' = columns_to_drop(T, threshold)
    /\ call' = [NoCall EXCEPT !.fn = "remove_high_missing_columns", !.t = threshold,
                              !.prev_t = call.t]
    /\ calls' = calls + 1
    /\ UNCHANGED <<favorite_coffee_counts, employment_counts>>

NextMissing == \E threshold \in Thresholds : remove_high_missing_columns(threshold)

SpecMissing == InitMissing /\ [][NextMissing]_vars

(***************************************************************************)
(* dash2.py: the table loaded at startup and the three callbacks           *)
(***************************************************************************)
None == [k |-> "none", b |-> FALSE, s |-> <<>>, n |-> 0]

What_is_your_age == <<"a", "g", "e">>

How_many_cups == <<"c", "u", "p", "s">>

What_is_your_favorite_coffee_drink == <<"f", "a", "v">>

Employment_Status == <<"e", "m", "p">>

Political_Affiliation == <<"p", "o", "l">>

DigitValue(c) == CHOOSE d \in 0..9 : Digit(d) = c

IsDigit(c) == \E d \in 0..9 : Digit(d) = c

RECURSIVE ParseInt(_, _)
ParseInt(s, acc) == IF s = <<>> THEN acc ELSE ParseInt(Tail(s), 10 * acc + DigitValue(Head(s)))

\* pd.to_numeric(value, errors='coerce'), one cell
to_numeric(v) ==
    CASE v.k = "num" -> v
      [] v.k = "bool" -> N(IF v.b THEN 1 ELSE 0)
      [] v.k = "str" ->
            LET t == strip(v.s)
            IN  IF t # <<>> /\ \A i \in 1..Len(t) : IsDigit(t[i]) THEN N(ParseInt(t, 0)) ELSE NaN
      [] OTHER -> NaN

\* series.astype(str), one cell
astype_str(v) == S(PyStr(v))

\* series.dropna().astype(int), assigned back to the column: the assignment aligns
\* on the index, so a row that dropna() removed holds NaN again
dropna_astype_int(v) == IF isnull(v) THEN NaN ELSE v

\* lines 51-60
LoadTable(csv) ==
    LET df54 == SetColumn(csv, What_is_your_age,
                    [i \in 1..csv.n |-> astype_str(csv.data[What_is_your_age][i])])
        df57 == SetColumn(df54, How_many_cups,
                    [i \in 1..csv.n |-> to_numeric(df54.data[How_many_cups][i])])
    IN  SetColumn(df57, How_many_cups,
            [i \in 1..csv.n |-> dropna_astype_int(df57.data[How_many_cups][i])])

\* value_counts(dropna=False): missing values get a bucket too
value_counts_keepna(series) ==
    LET present == {series[i] : i \in 1..Len(series)}
    IN  [v \in present |-> Cardinality({i \in 1..Len(series) : series[i] = v})]

\* series.value_counts(): value -> number of occurrences, missing values left out
value_counts(series) ==
    LET present == {series[i] : i \in {j \in 1..Len(series) : ~isnull(series[j])}}
    IN  [v \in present |-> Cardinality({i \in 1..Len(series) : series[i] = v})]

\* a filter under which a null selection matches the rows with no value
EqFilterNullMatchesMissing(v, selected) ==
    \/ v.k = "num" /\ selected.k = "num" /\ v.n = selected.n
    \/ isnull(v) /\ selected.k = "none"

\* value <= selected
EqFilterAtMost(v, selected) == v.k = "num" /\ selected.k = "num" /\ v.n <= selected.n

\* value == selected, one cell of a numeric column
EqFilter(v, selected) == v.k = "num" /\ selected.k = "num" /\ v.n = selected.n

\* value in selected_affiliations (Series.isin), one cell
isin(v, selected) == ~isnull(v) /\ \E i \in 1..Len(selected) : selected[i] = v

\* df[mask][column]: the column's values in the rows where mask is true, in row order
FilteredColumn(T, column, mask) ==
    LET rows == SelectSeq([i \in 1..T.n |-> i], LAMBDA i : mask[i])
    IN  [r \in 1..Len(rows) |-> T.data[column][rows[r]]]

Figure(counts) == [Returned(NoTable) EXCEPT !.summary = counts]

update_age_consumption_return(T, selected_cups) ==
    Figure(value_counts(FilteredColumn(T, What_is_your_age,
                            [i \in 1..T.n |-> EqFilter(T.data[How_many_cups][i], selected_cups)])))

\* selected_affiliations is None (items empty) or a list
update_political_chart_return(T, selected_affiliations) ==
    IF selected_affiliations.none \/ selected_affiliations.items = <<>>
    THEN Figure(value_counts(T.data[Political_Affiliation]))
    ELSE Figure(value_counts(FilteredColumn(T, Political_Affiliation,
                    [i \in 1..T.n |-> isin(T.data[Political_Affiliation][i], selected_affiliations.items)])))

\* The module-level df once a callback has returned.  update_age_consumption reads
\* df through df[mask], a new frame, and assigns only into age_counts (line 252), the
\* new frame reset_index() made.
update_age_consumption_df(T, selected_cups) == T

\* a callback that fills the missing affiliations of filtered_df in place; with
\* nothing selected filtered_df is df itself (line 288)
update_political_chart_df_fillna(T, selected_affiliations) ==
    IF selected_affiliations.none \/ selected_affiliations.items = <<>>
    THEN SetColumn(T, Political_Affiliation,
             [i \in 1..T.n |-> IF isnull(T.data[Political_Affiliation][i]) THEN S(<<"U">>)
                               ELSE T.data[Political_Affiliation][i]])
    ELSE T

\* update_political_chart binds filtered_df to df itself (line 288) or to a new frame
\* (line 290), reads it, and assigns only into political_counts (line 294), the new
\* frame reset_index() made.
update_political_chart_df(T, selected_affiliations) == T

\* display_page returns a layout built at import; it reads no frame
display_page_df(T, pathname) == T

display_page_return(pathname) ==
    [Returned(NoTable) EXCEPT !.page =
        CASE pathname = "/" \/ pathname = "/page-1" -> "page_1_layout"
          [] pathname = "/page-2" -> "page_2_layout"
          [] pathname = "/page-3" -> "page_3_layout"
          [] pathname = "/page-4" -> "page_4_layout"
          [] OTHER -> "404: Page Not Found"]

Age18 == S(<<"1", "8", "-", "2", "4">>)

Age25 == S(<<"2", "5", "-", "3", "4">>)

Latte == S(<<"L">>)

Mocha == S(<<"M">>)

Employed == S(<<"E">>)

Student == S(<<"S">>)

Democrat == S(<<"D">>)

Republican == S(<<"R">>)

Independent == S(<<"I">>)

\* rows of the csv file: <<age, cups per day, favorite drink, employment, affiliation>>;
\* cups per day is a number, a numeral, a malformed entry or missing
Respondents ==
    {<<Age18, N(1), Latte, Employed, Democrat>>,
     <<Age18, S(<<"2">>), NaN, Employed, Republican>>,
     <<Age18, S(<<"x">>), Latte, NaN, NaN>>,
     <<Age18, NaN, NaN, NaN, Democrat>>,
     <<NaN, N(1), Latte, Employed, Republican>>,
     <<NaN, S(<<" ", "2">>), Latte, NaN, Democrat>>,
     <<NaN, S(<<"x">>), NaN, Employed, NaN>>,
     <<NaN, NaN, Mocha, Student, NaN>>,
     <<Age25, N(1), Mocha, Employed, NaN>>,
     <<Age25, N(2), Mocha, Student, Republican>>}

CsvTables ==
    {[cols |-> <<What_is_your_age, How_many_cups, What_is_your_favorite_coffee_drink,
                 Employment_Status, Political_Affiliation>>,
      n    |-> Len(rows),
      data |-> (What_is_your_age :> [i \in 1..Len(rows) |-> rows[i][1]])
               @@ (How_many_cups :> [i \in 1..Len(rows) |-> rows[i][2]])
               @@ (What_is_your_favorite_coffee_drink :> [i \in 1..Len(rows) |-> rows[i][3]])
               @@ (Employment_Status :> [i \in 1..Len(rows) |-> rows[i][4]])
               @@ (Political_Affiliation :> [i \in 1..Len(rows) |-> rows[i][5]])] :
        rows \in UNION {[1..m -> Respondents] : m \in 0..MaxDfRows}}

CupsChoices == {None, N(1), N(2), N(3)}

Selection(items) == [none |-> FALSE, items |-> items]

NoSelection == [none |-> TRUE, items |-> <<>>]

AffiliationChoices ==
    {NoSelection, Selection(<<>>), Selection(<<Democrat>>), Selection(<<Republican>>),
     Selection(<<Democrat, Republican>>), Selection(<<Independent>>)}

Pathnames == {"/", "/page-1", "/page-2", "/page-3", "/page-4", "/page-5"}

\* the state once the module has been imported (lines 51-73); df0 keeps the table
\* as loaded
InitDash ==
    /\ \E csv \in CsvTables : df = LoadTable(csv)
    /\ df0 = df
    /\ ret = NoReturn
    /\ call = NoCall
    /\ calls = 0
    /\ stdout = <<>>
    /\ favorite_coffee_counts = value_counts(df.data[What_is_your_favorite_coffee_drink])
    /\ employment_counts = value_counts(df.data[Employment_Status])

update_age_consumption(selected_cups) ==
    /\ ret' = update_age_consumption_return(df, selected_cups)
    /\ df' = update_age_consumption_df(df, selected_cups)
    /\ call' = [NoCall EXCEPT !.fn = "update_age_consumption", !.sel = selected_cups]
    /\ UNCHANGED <<df0, calls, stdout, favorite_coffee_counts, employment_counts>>

update_political_chart(selected_affiliations) ==
    /\ ret' = update_political_chart_return(df, selected_affiliations)
    /\ df' = update_political_chart_df(df, selected_affiliations)
    /\ call' = [NoCall EXCEPT !.fn = "update_political_chart", !.sels = selected_affiliations]
    /\ UNCHANGED <<df0, calls, stdout, favorite_coffee_counts, employment_counts>>

display_page(pathname) ==
    /\ ret' = display_page_return(pathname)
    /\ df' = display_page_df(df, pathname)
    /\ call' = [NoCall EXCEPT !.fn = "display_page", !.pathname = pathname]
    /\ UNCHANGED <<df0, calls, stdout, favorite_coffee_counts, employment_counts>>

NextDash ==
    \/ \E selected_cups \in CupsChoices : update_age_consumption(selected_cups)
    \/ \E selected_affiliations \in AffiliationChoices : update_political_chart(selected_affiliations)
    \/ \E pathname \in Pathnames : display_page(pathname)

SpecDash == InitDash /\ [][NextDash]_vars

(***************************************************************************)
(* Properties of combine_columns                                           *)
(***************************************************************************)
IsCombine == call.fn = "combine_columns"

\* the qualifier in parentheses of a column name: what stands between the last "("
\* and the ")" after it, trimmed; the whole name when it has no parentheses
Qualifier(col) ==
    LET open == {i \in 1..Len(col) : col[i] = "("}
    IN  IF open = {} THEN strip(col)
        ELSE LET o == CHOOSE i \in open : \A j \in open : j <= i
                 close == {i \in (o + 1)..Len(col) : col[i] = ")"}
                 c == IF close = {} THEN Len(col) + 1
                      ELSE CHOOSE i \in close : \A j \in close : i <= j
             IN  strip(SubSeq(col, o + 1, c - 1))

\* selected as the specification has it: boolean true or a non-empty string, nothing else
ClaimSelected(v) == (v.k = "bool" /\ v.b) \/ (v.k = "str" /\ strip(v.s) # <<>>)

ClaimLabel(col, v) == IF v.k = "bool" THEN Qualifier(col) ELSE strip(v.s)

ClaimCombined(T, G, sep, i) ==
    LET picked == SelectSeq([j \in 1..Len(G) |-> j], LAMBDA j : ClaimSelected(T.data[G[j]][i]))
    IN  Join([p \in 1..Len(picked) |-> ClaimLabel(G[picked[p]], T.data[G[picked[p]]][i])], sep)

\* C1: in every row the combined column is the sep-join, in group order, of the
\* labels of the columns selected in that row, where only boolean true and
\* non-empty strings select a column (a number never does); the empty string when
\* none is selected.
C1_CombinedIsJoinOfSelected ==
    (IsCombine /\ ret.ok /\ call.name \in Columns(ret.tbl)) =>
        \A i \in 1..df0.n :
            ret.tbl.data[call.name][i] = S(ClaimCombined(df0, call.G, call.sep, i))

\* C2: the returned table has the column name, none of the other columns of G and
\* every column of T outside G, also when name is a member of G.
C2_ColumnsOfResult ==
    (IsCombine /\ ret.ok) =>
        /\ call.name \in Columns(ret.tbl)
        /\ (Range(call.G) \ {call.name}) \cap Columns(ret.tbl) = {}
        /\ (Columns(df0) \ Range(call.G)) \subseteq Columns(ret.tbl)
        /\ Columns(ret.tbl) \subseteq Columns(df0) \cup {call.name}

\* C3: after a call the table the caller passed in has the columns and the cell
\* values it had before the call.
C3_ArgumentUnchanged == IsCombine => df = df0

\* C4: a call whose group names a column the table does not have does not fail;
\* a table is returned.
C4_MissingColumnsIgnored ==
    (IsCombine /\ ~(Range(call.G) \subseteq Columns(df0))) => ret.ok

(***************************************************************************)
(* Properties of remove_high_missing_columns                               *)
(***************************************************************************)
IsRemove == call.fn = "remove_high_missing_columns"

MissingCount(T, c) == Cardinality({i \in 1..T.n : T.data[c][i] = NaN})

\* count/rows > threshold, as fractions
RatioAbove(T, c, t) == MissingCount(T, c) * t.den > t.num * T.n

\* C5: on a table with at least one row a column is dropped if and only if its
\* missing count divided by the row count is strictly greater than the threshold;
\* a column whose ratio equals the threshold is kept.
C5_DroppedIffRatioAbove ==
    (IsRemove /\ df0.n >= 1) =>
        /\ ret.ok
        /\ Columns(ret.tbl) \subseteq Columns(df0)
        /\ \A c \in Columns(df0) : (c \notin Columns(ret.tbl)) <=> RatioAbove(df0, c, call.t)

\* a call that drops one column and keeps another whose ratio equals the threshold
C5_Witness ==
    /\ IsRemove
    /\ df0.n >= 2
    /\ \E c \in Columns(df0) : c \notin Columns(ret.tbl)
    /\ \E c \in Columns(ret.tbl) :
          /\ MissingCount(df0, c) >= 1
          /\ MissingCount(df0, c) * call.t.den = call.t.num * df0.n

\* C9: a second application with the same threshold, on the table the first
\* returned, returns that table (same columns, same cells) and drops no column.
C9_Idempotent ==
    (IsRemove /\ calls >= 2 /\ call.t = call.prev_t) =>
        /\ ret.ok
        /\ ret.tbl = df0
        /\ stdout = <<>>

\* the second of two applications with one threshold, the first of which dropped
\* two columns and kept one that has missing values
C9_Witness ==
    /\ IsRemove
    /\ calls = 2
    /\ call.t = call.prev_t
    /\ Len(df0.cols) = 1
    /\ df0.n >= 2
    /\ \E c \in Columns(df0) : MissingCount(df0, c) >= 1

\* C10: the call returns normally on every table; on a table of no rows it drops
\* no column, whatever the threshold.
C10_NeverFails ==
    IsRemove =>
        /\ ret.ok
        /\ Columns(ret.tbl) \subseteq Columns(df0)
        /\ df0.n = 0 => (ret.tbl = df0 /\ stdout = <<>>)

\* a call on a table of three columns and no rows, with threshold 0
C10_Witness ==
    /\ IsRemove
    /\ df0.n = 0
    /\ Len(df0.cols) = 3
    /\ call.t = Ratio(0, 1)
    /\ ret.ok

(***************************************************************************)
(* Properties of the dashboard's summaries                                 *)
(***************************************************************************)
IsAge == call.fn = "update_age_consumption"

IsPolitical == call.fn = "update_political_chart"

NoneOrEmpty(selection) == selection.none \/ selection.items = <<>>

RECURSIVE SumOver(_, _)
SumOver(f, keys) ==
    IF keys = {} THEN 0
    ELSE LET x == CHOOSE y \in keys : TRUE IN f[x] + SumOver(f, keys \ {x})

SumCounts(summary) == SumOver(summary, DOMAIN summary)

Rows(T) == 1..T.n

NonMissing(T, c) == Cardinality({i \in Rows(T) : T.data[c][i] # NaN})

\* C6: unfiltered, the counts of a summary add up to the number of rows whose
\* group value is not missing: the two summaries made at startup and the chart of
\* political affiliations with nothing selected.
C6_UnfilteredSum ==
    /\ SumCounts(favorite_coffee_counts) = NonMissing(df, What_is_your_favorite_coffee_drink)
    /\ SumCounts(employment_counts) = NonMissing(df, Employment_Status)
    /\ (IsPolitical /\ NoneOrEmpty(call.sels)) =>
            SumCounts(ret.summary) = NonMissing(df, Political_Affiliation)

\* the unfiltered chart of a table of three rows, one of them without affiliation
C6_Witness ==
    /\ IsPolitical
    /\ NoneOrEmpty(call.sels)
    /\ df.n = 3
    /\ NonMissing(df, Political_Affiliation) = 2
    /\ NonMissing(df, Employment_Status) = 2
    /\ SumCounts(ret.summary) = 2

\* C7: with a null or empty filter value no row matches and the summary is empty,
\* in update_age_consumption and in update_political_chart alike.
C7_NullMatchesNothing ==
    /\ (IsAge /\ call.sel = None) => DOMAIN ret.summary = {}
    /\ (IsPolitical /\ NoneOrEmpty(call.sels)) => DOMAIN ret.summary = {}

\* C7 as amended: update_age_consumption(None) matches no row and gives the empty
\* summary; update_political_chart with None or an empty list takes every row, its
\* summary counting each affiliation over the whole table.
C7_NullAgeEmptyPoliticalAll ==
    /\ (IsAge /\ call.sel = None) => DOMAIN ret.summary = {}
    /\ (IsPolitical /\ NoneOrEmpty(call.sels)) =>
          /\ DOMAIN ret.summary =
                {df.data[Political_Affiliation][i] : i \in Rows(df)} \ {NaN}
          /\ \A v \in DOMAIN ret.summary :
                ret.summary[v] =
                    Cardinality({i \in Rows(df) : df.data[Political_Affiliation][i] = v})

\* update_age_consumption(None) on a table of three rows, one without a cups value
C7_Witness ==
    /\ IsAge
    /\ call.sel = None
    /\ df.n = 3
    /\ \E i \in Rows(df) : df.data[How_many_cups][i] = NaN
    /\ \E i \in Rows(df) : df.data[How_many_cups][i] # NaN
    /\ DOMAIN ret.summary = {}

CupsMatch(i) == df.data[How_many_cups][i] = call.sel /\ call.sel.k = "num"

AffiliationMatch(i) ==
    \/ NoneOrEmpty(call.sels)
    \/ \E j \in 1..Len(call.sels.items) : call.sels.items[j] = df.data[Political_Affiliation][i]

BucketsCount(summary, c, Match(_)) ==
    \A v \in DOMAIN summary :
        /\ summary[v] >= 1
        /\ summary[v] = Cardinality({i \in Rows(df) : Match(i) /\ df.data[c][i] = v})

\* C8: a filter value that no row has gives the empty summary and no error; and
\* every bucket of every summary counts at least one row, namely the matching
\* rows that have the bucket's group value.
C8_UnknownValueEmpty ==
    /\ IsAge =>
          /\ ret.ok
          /\ (~ \E i \in Rows(df) : CupsMatch(i)) => DOMAIN ret.summary = {}
          /\ BucketsCount(ret.summary, What_is_your_age, CupsMatch)
    /\ IsPolitical =>
          /\ ret.ok
          /\ BucketsCount(ret.summary, Political_Affiliation, AffiliationMatch)
    /\ BucketsCount(favorite_coffee_counts, What_is_your_favorite_coffee_drink, LAMBDA i : TRUE)
    /\ BucketsCount(employment_counts, Employment_Status, LAMBDA i : TRUE)

\* update_age_consumption(3) on a table of three rows with cups values 1 and 2 only
C8_Witness ==
    /\ IsAge
    /\ call.sel = N(3)
    /\ df.n = 3
    /\ \E i \in Rows(df) : df.data[How_many_cups][i] = N(1)
    /\ \E i \in Rows(df) : df.data[How_many_cups][i] = N(2)
    /\ ret.ok
    /\ DOMAIN ret.summary = {}

(***************************************************************************)
(* The loaded table across interactions                                    *)
(***************************************************************************)
IsPage == call.fn = "display_page"

\* the summary of a column c of the table as loaded, over the rows Match keeps
SummaryOf(c, Match(_)) ==
    LET rows == {i \in Rows(df0) : Match(i) /\ df0.data[c][i] # NaN}
    IN  [v \in {df0.data[c][i] : i \in rows} |->
            Cardinality({i \in rows : df0.data[c][i] = v})]

LoadedCupsMatch(i) == call.sel.k = "num" /\ df0.data[How_many_cups][i] = call.sel

LoadedAffiliationMatch(i) ==
    \/ NoneOrEmpty(call.sels)
    \/ \E j \in 1..Len(call.sels.items) : call.sels.items[j] = df0.data[Political_Affiliation][i]

\* C11: after startup, whatever interactions have taken place, the table df is the
\* table as loaded, and the summary a callback returns is determined by its filter
\* value and the table as loaded alone, not by the interactions before it.
C11_TableReadOnly ==
    /\ df = df0
    /\ IsAge => (ret.ok /\ ret.summary = SummaryOf(What_is_your_age, LoadedCupsMatch))
    /\ IsPolitical =>
          (ret.ok /\ ret.summary = SummaryOf(Political_Affiliation, LoadedAffiliationMatch))
    /\ IsPage => ret.ok

\* update_age_consumption(1) answered with two age groups, on a table of three rows
\* one of which has no affiliation
C11_Witness ==
    /\ IsAge
    /\ call.sel = N(1)
    /\ df.n = 3
    /\ df = df0
    /\ Cardinality(DOMAIN ret.summary) = 2
    /\ \E i \in Rows(df) : df.data[Political_Affiliation][i] = NaN

====
